---------------------------- MODULE Spec2Model ----------------------------
(***************************************************************************)
(* Model of src/stopwatch.py: the format_time helper and the StopwatchApp  *)
(* event handlers (start, pause, toggle_start_pause, reset, lap and the    *)
(* periodic _schedule_tick), driven by a clock the handlers read through   *)
(* _now().                                                                 *)
(*                                                                         *)
(* Time.  Python floats are IEEE-754 doubles.  The handlers only add and   *)
(* subtract clock readings; in the state machine every clock reading is a  *)
(* whole number of clock units of 2^-ClockBits seconds, so those sums and  *)
(* differences are exact in double arithmetic and are kept as integers     *)
(* (counts of units).  format_time is modelled on a double given by its    *)
(* sign, its integer part and the binary digits of its fractional part,    *)
(* with the one rounding step it performs (the product by 1000) rounded    *)
(* to MantissaBits significant bits, ties to even.                         *)
(***************************************************************************)
EXTENDS Integers, Sequences, FiniteSets, TLC

(***************************************************************************)
(* Bounds of the model.                                                    *)
(***************************************************************************)
ClockBits == 2         \* one clock unit is 2^-ClockBits seconds
MaxClock == 3          \* the clock runs from 0 to MaxClock units
MaxStep == 2           \* the clock moves by 1..MaxStep units in one step
MaxLaps == 2           \* rows the lap list may hold
MaxIntervals == 2      \* running intervals opened since the last reset
MaxRegress == 1        \* times a misbehaving clock runs backwards
MaxMillis == 1100      \* format_time is applied to 0..MaxMillis milliseconds
MaxNegMillis == 5      \* ... and to -MaxNegMillis..-1 milliseconds
ChunkBits == 12        \* binary digits the digit-by-digit arithmetic takes at once

(***************************************************************************)
(* Program constants.                                                      *)
(***************************************************************************)
MantissaBits == 53     \* significant bits of a Python float

VARIABLES
    running,           \* self.running
    _start_perf,       \* self._start_perf, in clock units
    _accum_elapsed,    \* self._accum_elapsed, in clock units
    _last_lap_total,   \* self._last_lap_total, in clock units
    time_label,        \* text of self.time_label
    start_pause_btn,   \* text of self.start_pause_btn
    lap_list,          \* rows of self.lap_list, first to last
    tick_scheduled,    \* a _schedule_tick callback is pending in root.after
    clock,             \* the reading time.perf_counter() returns, in units
    last_op,           \* history: the step taken last
    pre,               \* history: the tracker as the last step found it
    g_open,            \* history: instant the open running interval began, or -1
    g_sum,             \* history: sum of the completed intervals since reset
    g_count,           \* history: running intervals opened since reset
    g_restart,         \* history: start() was called again, later, in this interval
    reset_seen,        \* history: reset() has been called
    g_idle_laps,       \* history: laps recorded since the tracker last stopped
    regressions,       \* history: times the clock has run backwards
    fmt_in,            \* format_time's argument, in milliseconds
    fmt_out            \* format_time's result, or "" before the call

appvars == <<running, _start_perf, _accum_elapsed, _last_lap_total, time_label,
             start_pause_btn, lap_list, tick_scheduled>>
histvars == <<last_op, pre, g_open, g_sum, g_count, g_restart, reset_seen,
              g_idle_laps, regressions>>
fmtvars == <<fmt_in, fmt_out>>
vars == <<appvars, clock, histvars, fmtvars>>

(***************************************************************************)
(* Doubles.  A double is [neg, whole, bits]: its sign, the integer part of *)
(* its magnitude and the binary digits of the fractional part, first       *)
(* digit worth 1/2.                                                        *)
(***************************************************************************)
RECURSIVE BitLen(_)
BitLen(n) == IF n = 0 THEN 0 ELSE 1 + BitLen(n \div 2)

RECURSIVE Pow2(_)
Pow2(n) == IF n = 0 THEN 1 ELSE 2 * Pow2(n - 1)

AllOnes(bits) == \A i \in 1..Len(bits) : bits[i] = 1
AnyOne(bits) == \E i \in 1..Len(bits) : bits[i] = 1

\* Zero digits before the first 1 (all of them when there is no 1).
LeadingZeros(bits) ==
    Cardinality({i \in 1..Len(bits) : \A j \in 1..i : bits[j] = 0})

\* One digits after the last 0.
TrailingOnes(bits) ==
    Cardinality({i \in 1..Len(bits) : \A j \in i..Len(bits) : bits[j] = 1})

\* Fraction digits a double keeps after an integer part `whole`, when the
\* exact fraction digits are `bits`: MantissaBits significant bits in all.
KeptBits(whole, bits) ==
    IF whole > 0 THEN MantissaBits - BitLen(whole)
    ELSE LeadingZeros(bits) + MantissaBits

\* Round-to-nearest, ties-to-even: whether whole + 0.bits rounds up when cut
\* after `k` fraction digits.
RoundsUp(whole, bits, k) ==
    /\ Len(bits) > k
    /\ bits[k + 1] = 1
    /\ \/ AnyOne(SubSeq(bits, k + 2, Len(bits)))
       \/ (IF k >= 1 THEN bits[k] ELSE whole % 2) = 1

\* The number the binary digits `bits` spell, first digit most significant.
RECURSIVE BitsValue(_)
BitsValue(bits) ==
    IF bits = <<>> THEN 0
    ELSE 2 * BitsValue(SubSeq(bits, 1, Len(bits) - 1)) + bits[Len(bits)]

\* The `width` binary digits of v (0 <= v < 2^width), most significant first.
ValueBits(v, width) == [i \in 1..width |-> (v \div Pow2(width - i)) % 2]

\* Long division: the first n binary digits of num/den (0 <= num < den) and
\* the remainder left after them, ChunkBits digits at a time.
RECURSIVE FracDigits(_, _, _)
FracDigits(num, den, n) ==
    IF n <= ChunkBits
    THEN [bits |-> ValueBits((num * Pow2(n)) \div den, n),
          rem |-> (num * Pow2(n)) % den]
    ELSE LET rest == FracDigits((num * Pow2(ChunkBits)) % den, den, n - ChunkBits)
         IN  [bits |-> ValueBits((num * Pow2(ChunkBits)) \div den, ChunkBits)
                       \o rest.bits,
              rem |-> rest.rem]

\* bits + one unit in the last place; carry is 1 when the digits overflow.
Increment(bits) ==
    LET n == Len(bits)
        t == TrailingOnes(bits)
    IN  [bits |-> [i \in 1..n |-> IF i < n - t THEN bits[i]
                                  ELSE IF i = n - t THEN 1 ELSE 0],
         carry |-> IF t = n THEN 1 ELSE 0]

\* The double nearest to ms/1000 seconds: what the literal, or the quotient
\* ms / 1000, evaluates to.
DoubleOfMillis(ms) ==
    LET a == IF ms < 0 THEN -ms ELSE ms
        whole == a \div 1000
        r == a % 1000
        k == KeptBits(whole, FracDigits(r, 1000, MantissaBits).bits)
        cut == FracDigits(r, 1000, k)
        \* the discarded tail: above, at or below half a unit in the last place
        up == \/ 2 * cut.rem > 1000
              \/ /\ 2 * cut.rem = 1000
                 /\ cut.bits[k] = 1
        inc == Increment(cut.bits)
    IN  IF r = 0 THEN [neg |-> ms < 0, whole |-> whole, bits |-> <<>>]
        ELSE IF up
        THEN [neg |-> ms < 0, whole |-> whole + inc.carry, bits |-> inc.bits]
        ELSE [neg |-> ms < 0, whole |-> whole, bits |-> cut.bits]

\* The double holding `units` clock units, exactly.
RECURSIVE UnitDigits(_, _)
UnitDigits(n, width) ==
    IF width = 0 THEN <<>>
    ELSE Append(UnitDigits(n \div 2, width - 1), n % 2)

UnitsPerSecond == Pow2(ClockBits)

DoubleOfUnits(units) ==
    LET a == IF units < 0 THEN -units ELSE units
    IN  [neg |-> units < 0,
         whole |-> a \div UnitsPerSecond,
         bits |-> UnitDigits(a % UnitsPerSecond, ClockBits)]

\* 1000 * 0.bits + carry units in the last place, exactly: its integer part
\* and its fraction digits.  Schoolbook multiplication from the last digit,
\* ChunkBits digits at a time: the integer part of the product of the last
\* digits is the carry into the digits before them.
RECURSIVE Times1000(_, _)
Times1000(bits, carry) ==
    LET n == Len(bits)
    IN  IF n <= ChunkBits
        THEN LET v == 1000 * BitsValue(bits) + carry
             IN  [whole |-> v \div Pow2(n), bits |-> ValueBits(v % Pow2(n), n)]
        ELSE LET v == 1000 * BitsValue(SubSeq(bits, n - ChunkBits + 1, n)) + carry
                 front == Times1000(SubSeq(bits, 1, n - ChunkBits),
                                    v \div Pow2(ChunkBits))
             IN  [whole |-> front.whole,
                  bits |-> front.bits \o ValueBits(v % Pow2(ChunkBits), ChunkBits)]

\* int((seconds - int(seconds)) * 1000): the difference is exact, the
\* product is rounded to a double and int() drops its fraction.
Millis(d) ==
    LET p == Times1000(d.bits, 0)
        k == KeptBits(p.whole, p.bits)
    IN  IF RoundsUp(p.whole, p.bits, k) /\ AllOnes(SubSeq(p.bits, 1, k))
        THEN p.whole + 1
        ELSE p.whole

(***************************************************************************)
(* format_time.                                                            *)
(***************************************************************************)
DigitChar == <<"0", "1", "2", "3", "4", "5", "6", "7", "8", "9">>

\* f"{n:0<width>d}" for n >= 0: decimal, zero-padded to at least `width`.
RECURSIVE Pad(_, _)
Pad(n, width) ==
    IF n < 10 /\ width <= 1 THEN DigitChar[n + 1]
    ELSE Pad(n \div 10, IF width > 1 THEN width - 1 ELSE 0) \o DigitChar[(n % 10) + 1]

\* Faulty variant: format_time without the clamp renders a negative duration
\* from its magnitude, with its sign.
format_time_unclamped(d) ==
    LET minutes == d.whole \div 60
        secs == d.whole % 60
        millis == Millis([neg |-> FALSE, whole |-> d.whole, bits |-> d.bits])
        sign == IF d.neg /\ (d.whole > 0 \/ AnyOne(d.bits)) THEN "-" ELSE ""
    IN  sign \o Pad(minutes, 2) \o ":" \o Pad(secs, 2) \o "." \o Pad(millis, 3)

format_time(d) ==
    LET seconds == IF d.neg /\ (d.whole > 0 \/ AnyOne(d.bits))
                   THEN [neg |-> FALSE, whole |-> 0, bits |-> <<>>]
                   ELSE d
        minutes == seconds.whole \div 60
        secs == seconds.whole % 60
        millis == Millis(seconds)
    IN  Pad(minutes, 2) \o ":" \o Pad(secs, 2) \o "." \o Pad(millis, 3)


\* format_time on a duration the application holds, given in clock units.
\* The renderings of the durations in Tabulated are computed once.
Tabulated == (-(2 * MaxClock))..(2 * MaxClock)

format_time_table == [u \in Tabulated |-> format_time(DoubleOfUnits(u))]

format_units(u) ==
    IF u \in Tabulated THEN format_time_table[u]
    ELSE format_time(DoubleOfUnits(u))

(***************************************************************************)
(* StopwatchApp.  Durations and instants are whole clock units.            *)
(***************************************************************************)
_now == clock

\* Faulty variant: while running, only the open interval is reported.
_current_total_open_only ==
    IF running THEN _now - _start_perf
    ELSE _accum_elapsed

_current_total ==
    IF running THEN _accum_elapsed + (_now - _start_perf)
    ELSE _accum_elapsed

\* Called last in its callers, on the fields as they have just been set; the
\* clock it reads is the one its caller read.
_update_time_label ==
    time_label' = format_units(_current_total')

\* Faulty variant: the refresh folds the running time into the accumulator.
_schedule_tick_folding ==
    /\ tick_scheduled
    /\ _accum_elapsed' = _current_total
    /\ _start_perf' = _now
    /\ UNCHANGED <<running, _last_lap_total, start_pause_btn, lap_list>>
    /\ _update_time_label
    /\ tick_scheduled' = TRUE

\* Faulty variant: a refresh that redraws the label only while running.
_schedule_tick_idle ==
    /\ tick_scheduled
    /\ UNCHANGED <<running, _start_perf, _accum_elapsed, _last_lap_total,
                   start_pause_btn, lap_list>>
    /\ IF running THEN _update_time_label ELSE UNCHANGED time_label
    /\ tick_scheduled' = TRUE

_schedule_tick ==
    /\ tick_scheduled
    /\ UNCHANGED <<running, _start_perf, _accum_elapsed, _last_lap_total,
                   start_pause_btn, lap_list>>
    /\ _update_time_label
    /\ tick_scheduled' = TRUE

\* Faulty variant: start() without its guard restarts the open interval.
start_unguarded ==
    /\ running' = TRUE
    /\ _start_perf' = _now
    /\ start_pause_btn' = "Pause"
    /\ UNCHANGED <<_accum_elapsed, _last_lap_total, time_label, lap_list,
                   tick_scheduled>>

start ==
    IF ~running
    THEN /\ running' = TRUE
         /\ _start_perf' = _now
         /\ start_pause_btn' = "Pause"
         /\ UNCHANGED <<_accum_elapsed, _last_lap_total, time_label, lap_list,
                        tick_scheduled>>
    ELSE UNCHANGED appvars

\* Faulty variant: pause() without its guard accumulates again when stopped.
pause_unguarded ==
    /\ _accum_elapsed' = _accum_elapsed + (_now - _start_perf)
    /\ running' = FALSE
    /\ start_pause_btn' = "Start"
    /\ UNCHANGED <<_start_perf, _last_lap_total, time_label, lap_list,
                   tick_scheduled>>

\* Faulty variant: pause() stores the last interval instead of adding it.
pause_overwriting ==
    IF running
    THEN /\ _accum_elapsed' = _now - _start_perf
         /\ running' = FALSE
         /\ start_pause_btn' = "Start"
         /\ UNCHANGED <<_start_perf, _last_lap_total, time_label, lap_list,
                        tick_scheduled>>
    ELSE UNCHANGED appvars

pause ==
    IF running
    THEN /\ _accum_elapsed' = _accum_elapsed + (_now - _start_perf)
         /\ running' = FALSE
         /\ start_pause_btn' = "Start"
         /\ UNCHANGED <<_start_perf, _last_lap_total, time_label, lap_list,
                        tick_scheduled>>
    ELSE UNCHANGED appvars

\* Faulty variant: a toggle that can only start.
toggle_start_only ==
    start

toggle_start_pause ==
    IF running THEN pause ELSE start

\* Faulty variant: reset() that stops the tracker but keeps its time.
reset_keeping_time ==
    /\ running' = FALSE
    /\ _accum_elapsed' = _current_total
    /\ _last_lap_total' = 0
    /\ start_pause_btn' = "Start"
    /\ lap_list' = <<>>
    /\ UNCHANGED <<_start_perf, tick_scheduled>>
    /\ _update_time_label

\* Faulty variant: reset() that zeroes the tracker and leaves the laps.
reset_keeping_laps ==
    /\ running' = FALSE
    /\ _accum_elapsed' = 0
    /\ start_pause_btn' = "Start"
    /\ UNCHANGED <<_start_perf, _last_lap_total, lap_list, tick_scheduled>>
    /\ _update_time_label

\* Faulty variant: reset() that leaves the last recorded total as it is.
reset_stale_lap_total ==
    /\ running' = FALSE
    /\ _accum_elapsed' = 0
    /\ start_pause_btn' = "Start"
    /\ lap_list' = <<>>
    /\ UNCHANGED <<_start_perf, _last_lap_total, tick_scheduled>>
    /\ _update_time_label

\* Faulty variant: reset() that leaves the button text as it is.
reset_keeping_button ==
    /\ running' = FALSE
    /\ _accum_elapsed' = 0
    /\ _last_lap_total' = 0
    /\ lap_list' = <<>>
    /\ UNCHANGED <<_start_perf, start_pause_btn, tick_scheduled>>
    /\ _update_time_label

reset ==
    /\ running' = FALSE
    /\ _accum_elapsed' = 0
    /\ _last_lap_total' = 0
    /\ start_pause_btn' = "Start"
    /\ lap_list' = <<>>
    /\ UNCHANGED <<_start_perf, tick_scheduled>>
    /\ _update_time_label

\* A row of the lap list: the line inserted, with the lap number, total and
\* split it was rendered from.
LapRow(lap_number, total, split) ==
    [lap_number |-> lap_number, total |-> total, split |-> split,
     text |-> "Lap " \o Pad(lap_number, 2)
              \o " | Total: " \o format_units(total)
              \o " | Split: " \o format_units(split)]

\* Faulty variant: lap() that never updates the last recorded total.
lap_stale_total ==
    LET total == _current_total
        lap_number == Len(lap_list) + 1
        split == IF lap_number > 1 THEN total - _last_lap_total ELSE total
    IN  /\ lap_list' = Append(lap_list, LapRow(lap_number, total, split))
        /\ UNCHANGED <<running, _start_perf, _accum_elapsed, _last_lap_total,
                       time_label, start_pause_btn, tick_scheduled>>

\* Faulty variant: lap() that inserts the row at the top of the list.
lap_prepending ==
    LET total == _current_total
        lap_number == Len(lap_list) + 1
        split == IF lap_number > 1 THEN total - _last_lap_total ELSE total
    IN  /\ _last_lap_total' = total
        /\ lap_list' = <<LapRow(lap_number, total, split)>> \o lap_list
        /\ UNCHANGED <<running, _start_perf, _accum_elapsed, time_label,
                       start_pause_btn, tick_scheduled>>

\* Faulty variant: lap() that folds the running time into the accumulator
\* and restarts the interval before it records.
lap_restarting ==
    LET total == _current_total
        lap_number == Len(lap_list) + 1
        split == IF lap_number > 1 THEN total - _last_lap_total ELSE total
    IN  /\ _accum_elapsed' = total
        /\ _start_perf' = _now
        /\ _last_lap_total' = total
        /\ lap_list' = Append(lap_list, LapRow(lap_number, total, split))
        /\ UNCHANGED <<running, time_label, start_pause_btn, tick_scheduled>>

\* Faulty variant: lap() that takes the split the wrong way round.
lap_split_reversed ==
    LET total == _current_total
        lap_number == Len(lap_list) + 1
        split == IF lap_number > 1 THEN _last_lap_total - total ELSE total
    IN  /\ _last_lap_total' = total
        /\ lap_list' = Append(lap_list, LapRow(lap_number, total, split))
        /\ UNCHANGED <<running, _start_perf, _accum_elapsed, time_label,
                       start_pause_btn, tick_scheduled>>

lap ==
    LET total == _current_total
        lap_number == Len(lap_list) + 1
        split == IF lap_number > 1 THEN total - _last_lap_total ELSE total
    IN  /\ _last_lap_total' = total
        /\ lap_list' = Append(lap_list, LapRow(lap_number, total, split))
        /\ UNCHANGED <<running, _start_perf, _accum_elapsed, time_label,
                       start_pause_btn, tick_scheduled>>

(***************************************************************************)
(* History variables.  They record what was called and when, and keep the  *)
(* running intervals as the calls define them: an interval opens at the    *)
(* first start() after program start, a pause() or a reset(), and closes   *)
(* at the next pause().  They read no field of the application.            *)
(***************************************************************************)
Snapshot ==
    [running |-> running, accum |-> _accum_elapsed, laps |-> Len(lap_list)]

Note(op) == last_op' = op /\ pre' = Snapshot

OpenInterval ==
    IF g_open = -1
    THEN /\ g_open' = clock
         /\ g_count' = g_count + 1
         /\ g_restart' = FALSE
         /\ UNCHANGED g_sum
    ELSE /\ g_restart' = (g_restart \/ clock > g_open)
         /\ UNCHANGED <<g_open, g_sum, g_count>>

CloseInterval ==
    IF g_open /= -1
    THEN /\ g_sum' = g_sum + (clock - g_open)
         /\ g_open' = -1
         /\ UNCHANGED <<g_count, g_restart>>
    ELSE UNCHANGED <<g_open, g_sum, g_count, g_restart>>

MayOpen == g_open /= -1 \/ g_count < MaxIntervals

(***************************************************************************)
(* The steps: the user's events, the timer callback, and the clock.        *)
(***************************************************************************)
\* start() and pause() are public methods; the window itself reaches them
\* through toggle_start_pause only, so a direct call on a tracker that is
\* already in the target state stands for a caller using the methods' own
\* contract.
StartCall ==
    /\ MayOpen
    /\ start
    /\ Note("start")
    /\ OpenInterval
    /\ g_idle_laps' = 0
    /\ UNCHANGED <<clock, reset_seen, regressions, fmtvars>>

PauseCall ==
    /\ pause
    /\ Note("pause")
    /\ CloseInterval
    /\ UNCHANGED <<clock, reset_seen, g_idle_laps, regressions, fmtvars>>

ToggleCall ==
    /\ MayOpen
    /\ toggle_start_pause
    /\ Note("toggle")
    /\ IF g_open /= -1 THEN CloseInterval ELSE OpenInterval
    /\ g_idle_laps' = 0
    /\ UNCHANGED <<clock, reset_seen, regressions, fmtvars>>

ResetCall ==
    /\ UNCHANGED <<clock, regressions, fmtvars>>
    /\ reset
    /\ Note("reset")
    /\ g_open' = -1
    /\ g_sum' = 0
    /\ g_count' = 0
    /\ g_restart' = FALSE
    /\ reset_seen' = TRUE
    /\ g_idle_laps' = 0

LapCall ==
    /\ Len(lap_list) < MaxLaps
    /\ lap
    /\ Note("lap")
    /\ g_idle_laps' = (IF g_open = -1 THEN g_idle_laps + 1 ELSE g_idle_laps)
    /\ UNCHANGED <<clock, g_open, g_sum, g_count, g_restart, reset_seen,
                   regressions, fmtvars>>

TickCall ==
    /\ UNCHANGED <<clock, fmtvars>>
    /\ _schedule_tick
    /\ Note("tick")
    /\ UNCHANGED <<g_open, g_sum, g_count, g_restart, reset_seen, g_idle_laps,
                   regressions>>

\* time.perf_counter() is monotonic: between two events it moves forward.
ClockAdvance ==
    \E d \in 1..MaxStep :
        /\ clock + d <= MaxClock
        /\ clock' = clock + d
        /\ Note("clock")
        /\ UNCHANGED <<appvars, g_open, g_sum, g_count, g_restart, reset_seen,
                       g_idle_laps, regressions, fmtvars>>

\* A clock that misbehaves: it returns an earlier instant than before.
ClockRegress ==
    \E d \in 1..MaxStep :
        /\ regressions < MaxRegress
        /\ clock - d >= 0
        /\ clock' = clock - d
        /\ regressions' = regressions + 1
        /\ Note("regress")
        /\ UNCHANGED <<appvars, g_open, g_sum, g_count, g_restart, reset_seen,
                       g_idle_laps, fmtvars>>

\* StopwatchApp.__init__, up to and including its first _schedule_tick().
Init ==
    /\ running = FALSE
    /\ _start_perf = 0
    /\ _accum_elapsed = 0
    /\ _last_lap_total = 0
    /\ time_label = format_units(0)
    /\ start_pause_btn = "Start"
    /\ lap_list = <<>>
    /\ tick_scheduled = TRUE
    /\ clock = 0
    /\ last_op = "init"
    /\ pre = [running |-> FALSE, accum |-> 0, laps |-> 0]
    /\ g_open = -1
    /\ g_sum = 0
    /\ g_count = 0
    /\ g_restart = FALSE
    /\ reset_seen = FALSE
    /\ g_idle_laps = 0
    /\ regressions = 0
    /\ fmt_in = 0
    /\ fmt_out = ""

Next ==
    \/ StartCall
    \/ PauseCall
    \/ ToggleCall
    \/ ResetCall
    \/ LapCall
    \/ TickCall
    \/ ClockAdvance

Spec == Init /\ [][Next]_vars

\* The program while the window's event loop runs: a timer callback that is
\* scheduled is eventually called.
SpecFair == Init /\ [][Next]_vars /\ WF_vars(TickCall)

\* The same program under a clock that may also run backwards.
NextRegress == Next \/ ClockRegress

SpecRegress == Init /\ [][NextRegress]_vars

(***************************************************************************)
(* format_time on its own: applied once to a duration given in whole       *)
(* milliseconds, as the double nearest to that many thousandths.           *)
(***************************************************************************)
FormatSamples == {65123, 3599999, 3600000, 5999999, 6000000, 6000500}

FormatInputs == ((-MaxNegMillis)..MaxMillis) \cup FormatSamples

InitFormat ==
    /\ running = FALSE
    /\ _start_perf = 0
    /\ _accum_elapsed = 0
    /\ _last_lap_total = 0
    /\ time_label = format_units(0)
    /\ start_pause_btn = "Start"
    /\ lap_list = <<>>
    /\ tick_scheduled = TRUE
    /\ clock = 0
    /\ last_op = "init"
    /\ pre = [running |-> FALSE, accum |-> 0, laps |-> 0]
    /\ g_open = -1
    /\ g_sum = 0
    /\ g_count = 0
    /\ g_restart = FALSE
    /\ reset_seen = FALSE
    /\ g_idle_laps = 0
    /\ regressions = 0
    /\ fmt_in \in FormatInputs
    /\ fmt_out = ""

FormatCall ==
    /\ fmt_out = ""
    /\ fmt_out' = format_time(DoubleOfMillis(fmt_in))
    /\ UNCHANGED <<appvars, clock, histvars, fmt_in>>

NextFormat == FormatCall

SpecFormat == InitFormat /\ [][NextFormat]_vars

(***************************************************************************)
(* Properties.                                                             *)
(***************************************************************************)

\* C1: whenever the tracker is stopped, elapsed() is the sum of the durations
\* (pause instant minus start instant) of the running intervals completed
\* since program start or the last reset; the tracker is stopped exactly
\* when the calls made so far leave no interval open.
ElapsedIsSumOfIntervals ==
    /\ running <=> g_open /= -1
    /\ ~running => (_current_total = g_sum /\ _accum_elapsed = g_sum)

\* Two intervals of positive duration have been completed.
TwoIntervalsCompleted ==
    /\ ~running
    /\ last_op = "pause"
    /\ pre.running
    /\ g_count >= 2
    /\ pre.accum > 0
    /\ g_sum > pre.accum

\* C2: reset() leaves the tracker stopped, elapsed() = 0 and the lap list
\* empty, whatever state it was called in.
ResetClears ==
    last_op = "reset" =>
        /\ ~running
        /\ _current_total = 0
        /\ lap_list = <<>>

\* reset() was called on a running tracker holding time and laps.
ResetWhileRunningWithLaps ==
    /\ last_op = "reset"
    /\ pre.running
    /\ pre.accum > 0
    /\ pre.laps > 0

\* C3: elapsed() is never negative, also when the clock returns an instant
\* earlier than the one start() read.
ElapsedNeverNegative == _current_total >= 0

\* C4: pause() never decreases the accumulated time, also when the clock has
\* run backwards since start().
PauseNeverDecreases ==
    last_op = "pause" => _accum_elapsed >= pre.accum

\* C5: the first row's split is its total, and every later row's split is
\* its total minus the total of the row before it.
LapSplitInvariant ==
    \A i \in 1..Len(lap_list) :
        IF i = 1 THEN lap_list[i].split = lap_list[i].total
        ELSE lap_list[i].split = lap_list[i].total - lap_list[i - 1].total

\* Two laps with different positive totals, recorded after a reset.
TwoLapsAfterReset ==
    /\ reset_seen
    /\ Len(lap_list) >= 2
    /\ lap_list[1].total > 0
    /\ lap_list[2].split > 0

\* C6: start() on a running tracker changes nothing of running, start
\* instant and accumulated time, and the pause() that ends an interval adds
\* the time since the first start() of that interval, however many start()
\* calls followed it.
StartIdempotent ==
    [][/\ (last_op' = "start" /\ running) =>
              UNCHANGED <<running, _start_perf, _accum_elapsed>>
       /\ (last_op' = "pause" /\ running) =>
              _accum_elapsed' = _accum_elapsed + (clock - g_open)]_vars

\* An interval in which start() was called again at a later instant has been
\* paused.
RestartedIntervalPaused ==
    /\ last_op = "pause"
    /\ pre.running
    /\ g_restart
    /\ _accum_elapsed > pre.accum

\* C7: pause() on a stopped tracker changes nothing of accumulated time,
\* running and the lap state.
PauseIdempotent ==
    [][(last_op' = "pause" /\ ~running) =>
           UNCHANGED <<_accum_elapsed, running, _last_lap_total, lap_list>>]_vars

\* pause() was called on a stopped tracker that holds one interval and a
\* lap, after the clock moved on from the pause that closed the interval.
PausedAgainLater ==
    /\ last_op = "pause"
    /\ ~pre.running
    /\ ~reset_seen
    /\ g_count = 1
    /\ _accum_elapsed > 0
    /\ clock > _start_perf + _accum_elapsed
    /\ Len(lap_list) > 0

\* C8: a display refresh changes nothing of running, accumulated time, start
\* instant, last lap total and the lap list.
TickLeavesCoreUnchanged ==
    [][(last_op' = "tick") =>
           UNCHANGED <<running, _accum_elapsed, _start_perf, _last_lap_total,
                       lap_list>>]_vars

\* A refresh ran on a running tracker with a lap and showed a nonzero time.
TickedWhileRunning ==
    /\ last_op = "tick"
    /\ running
    /\ clock > _start_perf
    /\ Len(lap_list) > 0
    /\ time_label /= format_units(0)

\* C9: a lap appends exactly one row, numbered one more than the rows there
\* were, and leaves the earlier rows as they are; the rows are numbered
\* 1..n in order.
LapAppendsOneRow ==
    /\ [][(last_op' = "lap") =>
              /\ Len(lap_list') = Len(lap_list) + 1
              /\ SubSeq(lap_list', 1, Len(lap_list)) = lap_list
              /\ lap_list'[Len(lap_list')].lap_number = Len(lap_list) + 1]_vars
    /\ [](\A i \in 1..Len(lap_list) : lap_list[i].lap_number = i)

\* A second lap has just been recorded.
SecondLapRecorded ==
    /\ last_op = "lap"
    /\ pre.laps >= 1
    /\ Len(lap_list) = pre.laps + 1

\* The rendering M:SS.mmm of t whole milliseconds: minutes in at least two
\* digits, seconds in two, milliseconds in three.
Rendering(t) ==
    Pad(t \div 60000, 2) \o ":" \o Pad((t \div 1000) % 60, 2) \o "."
        \o Pad(t % 1000, 3)

\* C10: for a duration of t >= 0 whole milliseconds, format_time returns the
\* rendering of t.
FormatRendersMillis ==
    (fmt_out /= "" /\ fmt_in >= 0) => fmt_out = Rendering(fmt_in)

\* C11: for every negative input, format_time returns exactly the rendering
\* of zero, "00:00.000".
NegativeFormatsAsZero ==
    (fmt_out /= "" /\ fmt_in < 0) => fmt_out = "00:00.000"

\* A negative duration has been formatted.
NegativeFormatted ==
    /\ fmt_in < 0
    /\ fmt_out /= ""

\* C12: a toggle does exactly what pause() does when the tracker is running
\* and what start() does when it is stopped, and nothing else; so every
\* toggle flips running, and the tracker, stopped at first, alternates
\* between stopped and running under toggles.
ToggleIsPauseOrStart ==
    [][(last_op' = "toggle") =>
           /\ running' = ~running
           /\ IF running
              THEN /\ _accum_elapsed' = _accum_elapsed + (clock - _start_perf)
                   /\ _start_perf' = _start_perf
                   /\ start_pause_btn' = "Start"
              ELSE /\ _accum_elapsed' = _accum_elapsed
                   /\ _start_perf' = clock
                   /\ start_pause_btn' = "Pause"
           /\ UNCHANGED <<_last_lap_total, lap_list, time_label,
                          tick_scheduled>>]_vars

\* A toggle has stopped a tracker that was running for a positive time in
\* its second interval.
ToggledToStopped ==
    /\ last_op = "toggle"
    /\ pre.running
    /\ ~running
    /\ g_count >= 2
    /\ _accum_elapsed > pre.accum

\* C13: a lap records as its total the value elapsed() has at that instant,
\* whether the tracker is running or stopped, and leaves running, the
\* accumulated time and the start instant as they are.
LapIsSnapshot ==
    [][(last_op' = "lap") =>
           /\ lap_list'[Len(lap_list')].total =
                  (IF running THEN _accum_elapsed + (clock - _start_perf)
                   ELSE _accum_elapsed)
           /\ lap_list'[Len(lap_list')].text =
                  LapRow(Len(lap_list) + 1, _current_total,
                         lap_list'[Len(lap_list')].split).text
           /\ UNCHANGED <<running, _accum_elapsed, _start_perf>>]_vars

\* A lap was recorded on a running tracker whose total has a part from an
\* earlier interval and a part from the open one, after a lap recorded
\* while stopped.
LapWhileRunning ==
    /\ last_op = "lap"
    /\ running
    /\ _accum_elapsed > 0
    /\ clock > _start_perf
    /\ Len(lap_list) = 2
    /\ lap_list[1].total = _accum_elapsed
    /\ lap_list[2].total > _accum_elapsed

\* C14: start, pause, toggle and the display refresh leave the lap list and
\* the last recorded total unchanged; a recorded row never changes while it
\* is in the list; the only step after which the list is shorter is reset,
\* and reset empties it and zeroes the last recorded total in the step in
\* which it stops and zeroes the tracker.
LapsRemovedOnlyByReset ==
    [][/\ (last_op' \in {"start", "pause", "toggle", "tick"}) =>
              UNCHANGED <<lap_list, _last_lap_total>>
       /\ (last_op' /= "reset") =>
              /\ Len(lap_list') >= Len(lap_list)
              /\ SubSeq(lap_list', 1, Len(lap_list)) = lap_list
       /\ (last_op' = "reset") =>
              /\ lap_list' = <<>>
              /\ _last_lap_total' = 0
              /\ _accum_elapsed' = 0
              /\ ~running']_vars

\* A reset has emptied a list of two laps of a tracker that held time.
ResetEmptiedTwoLaps ==
    /\ last_op = "reset"
    /\ pre.laps >= 2
    /\ pre.accum > 0
    /\ lap_list = <<>>
    /\ _last_lap_total = 0

\* C15: a refresh is scheduled at all times, every refresh scheduling the
\* next; reset sets the label to the rendering of zero in its own step; and
\* if from some point on the tracker stays stopped, then from some point on
\* the label shows the rendering of the accumulated time.
LabelConverges ==
    /\ [](tick_scheduled)
    /\ [][(last_op' = "reset") =>
              time_label' = format_units(0)]_vars
    /\ (<>[](~running)) =>
           <>[](time_label = format_units(_accum_elapsed))

\* A refresh on a stopped tracker left the label showing its accumulated,
\* nonzero time.
StoppedLabelRefreshed ==
    /\ last_op = "tick"
    /\ ~running
    /\ _accum_elapsed > 0
    /\ time_label = format_units(_accum_elapsed)
    /\ time_label /= format_units(0)

\* C16: _last_lap_total is the total of the last row of the lap list, and 0
\* when the list is empty; so for a lap recorded now, the split lap() takes
\* (the total itself for the first row, total - _last_lap_total otherwise)
\* is total - _last_lap_total in both cases.
LastLapTotalIsLastRow ==
    /\ _last_lap_total =
           (IF lap_list = <<>> THEN 0 ELSE lap_list[Len(lap_list)].total)
    /\ (IF Len(lap_list) + 1 > 1 THEN _current_total - _last_lap_total
        ELSE _current_total) = _current_total - _last_lap_total

\* The first lap after a reset has been recorded, with a positive total.
FirstLapAfterReset ==
    /\ reset_seen
    /\ last_op = "lap"
    /\ pre.laps = 0
    /\ Len(lap_list) = 1
    /\ lap_list[1].total > 0
    /\ lap_list[1].split = lap_list[1].total

\* C17: under a clock that never runs backwards, the totals of the rows do
\* not decrease down the list and no total or split is negative; a lap
\* recorded on a stopped tracker after another one, with no start between
\* them, has the same total and split 0; a lap recorded before any start
\* has total 0 and split 0.
LapTotalsNonDecreasing ==
    /\ [](\A i \in 1..Len(lap_list) :
              /\ lap_list[i].total >= 0
              /\ lap_list[i].split >= 0
              /\ i > 1 => lap_list[i].total >= lap_list[i - 1].total)
    /\ [][(last_op' = "lap" /\ g_idle_laps >= 1) =>
              /\ lap_list'[Len(lap_list')].total =
                     lap_list[Len(lap_list)].total
              /\ lap_list'[Len(lap_list')].split = 0]_vars
    /\ [][(last_op' = "lap" /\ g_count = 0) =>
              /\ lap_list'[Len(lap_list')].total = 0
              /\ lap_list'[Len(lap_list')].split = 0]_vars

\* Two laps were recorded in one stop of a tracker that holds time, after a
\* reset: equal positive totals, the second with split 0.
TwoLapsWhileStopped ==
    /\ last_op = "lap"
    /\ reset_seen
    /\ g_idle_laps = 2
    /\ Len(lap_list) = 2
    /\ lap_list[1].total > 0
    /\ lap_list[2].total = lap_list[1].total
    /\ lap_list[2].split = 0

\* C18: under a clock that never runs backwards, no step other than reset
\* decreases elapsed(); start, pause, toggle, lap and the display refresh
\* leave its value as it is (no jump at the instant of a start or a pause);
\* and it stays the same when the clock advances on a stopped tracker.
ElapsedNeverDecreases ==
    [][/\ (last_op' /= "reset") => _current_total' >= _current_total
       /\ (last_op' \in {"start", "pause", "toggle", "lap", "tick"}) =>
              _current_total' = _current_total
       /\ (last_op' = "clock" /\ ~running) =>
              _current_total' = _current_total]_vars

\* A tracker holding time from an earlier interval has just been started
\* again: it runs, and elapsed() is still the accumulated time.
StartedAgainWithTime ==
    /\ last_op \in {"start", "toggle"}
    /\ ~pre.running
    /\ running
    /\ pre.accum > 0
    /\ clock = _start_perf
    /\ _current_total = pre.accum

\* C19: the start/pause button reads "Pause" exactly when the tracker is
\* running and "Start" otherwise, in every state: at construction and after
\* every start, pause, toggle and reset, also a reset of a running tracker
\* and a start or pause that changes nothing.
ButtonShowsNextAction ==
    start_pause_btn = (IF running THEN "Pause" ELSE "Start")

\* A running tracker, its button reading "Pause", has just been reset.
ResetWhileRunningButton ==
    /\ last_op = "reset"
    /\ pre.running
    /\ ~running
    /\ start_pause_btn = "Start"

=============================================================================
